---- MODULE Spec2Model ----
(***************************************************************************)
(* Model of src/app.py: the nightlights dashboard.                         *)
(*                                                                         *)
(*   create_colormap   lines 45-58   a pure function                       *)
(*   server.fetch_data lines 61-144  the reactive calculation              *)
(*   server.info/table/map lines 146-161  the three renderers              *)
(*                                                                         *)
(* Python values are records with a tag.  A number is kept as an exact     *)
(* fraction num/den in lowest terms (den > 0): the float arithmetic of     *)
(* the code is modelled by exact rational arithmetic, which agrees with    *)
(* it up to floating-point tolerance.                                      *)
(***************************************************************************)
EXTENDS Integers, Sequences, FiniteSets, TLC

\* ------------------------------------------------------------------ bounds
MaxFeatures == 2      \* longest feature list a remote answer carries
MaxValues == 3        \* longest argument list given to create_colormap alone
MaxClicks == 2        \* Update clicks followed in one session
MaxMonth == 2         \* months 1..MaxMonth of the twelve are selectable
MaxImages == 1        \* largest image-collection size a query reports

\* ------------------------------------------------------- python values
None == [tag |-> "None", num |-> 0, den |-> 1]
NaN == [tag |-> "NaN", num |-> 0, den |-> 1]

Abs(n) == IF n < 0 THEN -n ELSE n

RECURSIVE GCD(_, _)
GCD(a, b) == IF b = 0 THEN a ELSE GCD(b, a % b)

\* the number n/d in lowest terms, d # 0
Rat(n, d) ==
    LET g == GCD(Abs(n), Abs(d))
        s == IF d < 0 THEN -1 ELSE 1
    IN [tag |-> "num", num |-> (s * n) \div g, den |-> (s * d) \div g]

Num(n) == Rat(n, 1)

FAdd(a, b) == Rat(a.num * b.den + b.num * a.den, a.den * b.den)
FSub(a, b) == Rat(a.num * b.den - b.num * a.den, a.den * b.den)
FMul(a, b) == Rat(a.num * b.num, a.den * b.den)
FDiv(a, b) == Rat(a.num * b.den, a.den * b.num)
FLess(a, b) == a.num * b.den < b.num * a.den

\* int(x): truncation toward zero
PyInt(a) == IF a.num >= 0 THEN a.num \div a.den ELSE -((-a.num) \div a.den)

\* bool(x) of None, an int or a float
Truthy(v) == v.tag = "num" /\ v.num # 0

\* dict.get(key, default)
Get(d, key, default) == IF key \in DOMAIN d THEN d[key] ELSE default

Min2(a, b) == IF a < b THEN a ELSE b

\* -------------------------------------------------------- create_colormap
HexDigits == <<"0", "1", "2", "3", "4", "5", "6", "7",
               "8", "9", "a", "b", "c", "d", "e", "f">>

RECURSIVE HexOf(_)
\* the hexadecimal digits of n >= 0, most significant first, no padding
HexOf(n) == IF n < 16 THEN <<HexDigits[n + 1]>>
            ELSE HexOf(n \div 16) \o <<HexDigits[(n % 16) + 1]>>

\* "{:02x}".format(n): at least two digits, zero padded, sign first
Format02x(n) ==
    IF n < 0 THEN <<"-">> \o HexOf(-n)
    ELSE IF n < 16 THEN <<"0">> \o HexOf(n)
    ELSE HexOf(n)

\* "#{:02x}{:02x}{:02x}".format(r, g, b)
FormatHex(rgb) == <<"#">> \o Format02x(rgb[1]) \o Format02x(rgb[2]) \o Format02x(rgb[3])

\* colors = [(0, 0, 255), (1, 0, 0)]
colors == << <<Num(0), Num(0), Num(255)>>, <<Num(1), Num(0), Num(0)>> >>

\* element i (0-based) of np.linspace(start, stop, num) for scalars
LinspaceAt(start, stop, num, i) ==
    IF num = 1 THEN start
    ELSE IF i = num - 1 THEN stop
    ELSE FAdd(FMul(Num(i), FDiv(FSub(stop, start), Num(num - 1))), start)

\* np.linspace(start, stop, num) for two triples: num rows of three floats
Linspace(start, stop, num) ==
    [i \in 1..num |-> [k \in 1..3 |-> LinspaceAt(start[k], stop[k], num, i - 1)]]

RECURSIVE SeqMin(_)
SeqMin(s) == IF Len(s) = 1 THEN s[1]
             ELSE LET m == SeqMin(Tail(s)) IN IF FLess(s[1], m) THEN s[1] ELSE m

RECURSIVE SeqMax(_)
SeqMax(s) == IF Len(s) = 1 THEN s[1]
             ELSE LET m == SeqMax(Tail(s)) IN IF FLess(m, s[1]) THEN s[1] ELSE m

\* np.interp(x, (lo, hi), (0, 1)) for one x with lo <= x <= hi; with lo = hi
\* the search ends at the last point and gives 1
Interp01(x, lo, hi) ==
    IF FLess(lo, hi) THEN FDiv(FSub(x, lo), FSub(hi, lo)) ELSE Num(1)

\* line 49: the normalised changes (computed, then only their count is used)
NormChanges(percentage_changes) ==
    [i \in 1..Len(percentage_changes) |->
        Interp01(percentage_changes[i], SeqMin(percentage_changes),
                 SeqMax(percentage_changes))]

\* lines 52-53, with each colour taken at its normalised value on the line
\* instead of at its position
ColormapValuesByValue(norm_changes) ==
    [i \in 1..Len(norm_changes) |->
        [k \in 1..3 |->
            PyInt(FMul(FAdd(colors[1][k],
                          FMul(norm_changes[i], FSub(colors[2][k], colors[1][k]))),
                     Num(255)))]]

\* lines 52-53: one (int(c[0]*255), int(c[1]*255), int(c[2]*255)) per row of
\* np.linspace(colors[0], colors[1], len(norm_changes))
ColormapValues(norm_changes) ==
    LET rows == Linspace(colors[1], colors[2], Len(norm_changes))
    IN [i \in 1..Len(norm_changes) |->
           [k \in 1..3 |-> PyInt(FMul(rows[i][k], Num(255)))]]

\* The outcome of a call: the value returned, or the exception raised.
Returned(v) == [raised |-> "", value |-> v]
Raised(e) == [raised |-> e, value |-> <<>>]

\* lines 45-58.  min() of an empty array raises ValueError (line 49).
create_colormap(percentage_changes) ==
    IF Len(percentage_changes) = 0 THEN Raised("ValueError")
    ELSE LET norm_changes == NormChanges(percentage_changes)
             colormap_values == ColormapValues(norm_changes)
         IN Returned([i \in 1..Len(colormap_values) |-> FormatHex(colormap_values[i])])

\* ------------------------------------------------------------- the inputs
\* lines 20-26: the choices of the four selectors (int() of the chosen text)
Years == {2024, 2025}
Months == 1..MaxMonth
Selectors == {"start_year", "start_month", "end_year", "end_month"}
Choices(name) == IF name \in {"start_year", "end_year"} THEN Years ELSE Months

RECURSIVE DecOf(_)
\* the decimal digits of n >= 0
DecOf(n) == IF n < 10 THEN <<HexDigits[n + 1]>>
            ELSE DecOf(n \div 10) \o <<HexDigits[(n % 10) + 1]>>

\* f"{n:02d}"
Format02d(n) == IF n < 10 THEN <<"0">> \o DecOf(n) ELSE DecOf(n)

\* f"{year}-{month:02d}-{day}" with day "01" or "28" (lines 71-72, 80, 85)
DateStr(year, month, day) == DecOf(year) \o <<"-">> \o Format02d(month) \o <<"-">> \o day

\* line 149
InfoText(inp) ==
    <<"Showing data for ">> \o DecOf(inp.start_year) \o <<" - ">>
        \o Format02d(inp.start_month) \o <<" to ">> \o DecOf(inp.end_year)
        \o <<" - ">> \o Format02d(inp.end_month)

\* ------------------------------------------------------ the remote service
\* The regions of china_states, in the order the service lists them.
RegionNames == <<"Anhui", "Beijing", "Chongqing", "Fujian", "Gansu">>

\* The mean of a feature: a number, null (None), or no "mean" key at all.
StartMeans == {None, Num(0), Num(10), Num(20)}
EndMeans == {None, Num(0), Num(15), Num(18)}

\* one feature of a getInfo()["features"] list
Feature(name, hasMean, mean) ==
    [properties |-> IF hasMean THEN [ADM1_NAME |-> name, mean |-> mean]
                    ELSE [ADM1_NAME |-> name]]

\* The name of the i-th feature of an answer: the service lists the regions
\* in the order of RegionNames, or in that order rotated by one.
NameAt(order, i) == IF order = "same" THEN RegionNames[i]
                    ELSE RegionNames[(i % MaxFeatures) + 1]

\* all feature lists of length n, the means drawn from the set means
FeatureLists(means, n) ==
    { [i \in 1..n |-> Feature(NameAt(order, i), has[i], IF has[i] THEN m[i] ELSE None)] :
        order \in {"same", "rotated"},
        has \in [1..n -> BOOLEAN],
        m \in [1..n -> means] }

AllFeatureLists(means) == UNION { FeatureLists(means, n) : n \in 0..MaxFeatures }

Answer(ss, se, fs, fe) ==
    [size_start |-> ss, size_end |-> se, features_start |-> fs, features_end |-> fe]

\* every answer within the bounds, both collections non-empty
AllRemoteAnswers ==
    { Answer(1, 1, fs, fe) : fs \in AllFeatureLists(StartMeans),
                             fe \in AllFeatureLists(EndMeans) }

\* The answers the session specification draws from: the scenarios of the
\* two-region example, a null end mean, a missing key, no usable mean at all.
SampleStart ==
    { <<Feature("Anhui", TRUE, Num(10)), Feature("Beijing", TRUE, Num(20))>>,
      <<Feature("Anhui", FALSE, None), Feature("Beijing", TRUE, Num(0))>> }
SampleEnd ==
    { <<Feature("Anhui", TRUE, Num(15)), Feature("Beijing", TRUE, Num(18))>>,
      <<Feature("Anhui", TRUE, Num(15)), Feature("Beijing", TRUE, None)>> }

\* Features are asked for only when both sizes are positive (line 89).
RemoteAnswers ==
    { Answer(p[1], p[2], <<>>, <<>>) :
        p \in { q \in (0..MaxImages) \X (0..MaxImages) : q[1] = 0 \/ q[2] = 0 } }
    \cup
    { Answer(ss, se, fs, fe) : ss \in 1..MaxImages, se \in 1..MaxImages,
                               fs \in SampleStart, fe \in SampleEnd }

\* --------------------------------------------------------------- fetch_data
ColState == "State"
ColStart == "Start Mean Radiance"
ColEnd == "End Mean Radiance"
ColChange == "Percentage Change"
Columns == <<ColState, ColStart, ColEnd, ColChange>>
NoDataMessage == "No data available for the selected months."

\* line 124, dividing by the end mean instead of the start mean
ChangeOverEnd(start_mean_radiance, end_mean_radiance) ==
    FMul(FDiv(FSub(end_mean_radiance, start_mean_radiance), end_mean_radiance), Num(100))

\* line 124: ((end - start) / start) * 100
ChangeFormula(start_mean_radiance, end_mean_radiance) ==
    FMul(FDiv(FSub(end_mean_radiance, start_mean_radiance), start_mean_radiance), Num(100))

\* lines 123-126, with the guard of line 123 dropped for a zero end mean
PercentageChangeStartOnly(start_mean_radiance, end_mean_radiance) ==
    IF Truthy(start_mean_radiance) /\ end_mean_radiance.tag = "num"
    THEN ChangeFormula(start_mean_radiance, end_mean_radiance)
    ELSE None

\* lines 123-126
PercentageChange(start_mean_radiance, end_mean_radiance) ==
    IF Truthy(start_mean_radiance) /\ Truthy(end_mean_radiance)
    THEN ChangeFormula(start_mean_radiance, end_mean_radiance)
    ELSE None

\* lines 118-133: the row of one (start_feature, end_feature) pair,
\* with the end feature taken from the wrong position
RowOfShifted(features_start, features_end, i) ==
    LET start_feature == features_start[i]
        end_feature == features_end[IF i < Len(features_end) THEN i + 1 ELSE 1]
        start_mean_radiance == Get(start_feature.properties, "mean", None)
        end_mean_radiance == Get(end_feature.properties, "mean", None)
    IN (ColState :> start_feature.properties["ADM1_NAME"])
       @@ (ColStart :> start_mean_radiance)
       @@ (ColEnd :> end_mean_radiance)
       @@ (ColChange :> PercentageChange(start_mean_radiance, end_mean_radiance))

\* lines 118-133: the row of the i-th (start_feature, end_feature) pair
RowOf(features_start, features_end, i) ==
    LET start_feature == features_start[i]
        end_feature == features_end[i]
        start_mean_radiance == Get(start_feature.properties, "mean", None)
        end_mean_radiance == Get(end_feature.properties, "mean", None)
    IN (ColState :> start_feature.properties["ADM1_NAME"])
       @@ (ColStart :> start_mean_radiance)
       @@ (ColEnd :> end_mean_radiance)
       @@ (ColChange :> PercentageChange(start_mean_radiance, end_mean_radiance))

\* line 117: zip stops at the shorter list
ZipLen(features_start, features_end) == Min2(Len(features_start), Len(features_end))

\* lines 113-133: data after the loop
LoopData(features_start, features_end) ==
    [i \in 1..ZipLen(features_start, features_end) |->
        RowOf(features_start, features_end, i)]

IsNotNone(v) == v.tag # "None"

\* lines 114, 135-136: percentage_changes after the loop
LoopChanges(data) ==
    SelectSeq([i \in 1..Len(data) |-> data[i][ColChange]], IsNotNone)

\* pd.DataFrame({"Error": [message]}) (line 90)
ErrorFrame ==
    [type |-> "DataFrame", columns |-> <<"Error">>,
     rows |-> << ("Error" :> NoDataMessage) >>]

\* One cell of pd.DataFrame(data): in a column that holds a number, a None
\* becomes the missing value NaN; a column of None only keeps its None.
Cell(data, i, col) ==
    IF col = ColState THEN data[i][col]
    ELSE IF data[i][col].tag = "None"
            /\ \E j \in 1..Len(data) : data[j][col].tag = "num"
         THEN NaN
         ELSE data[i][col]

\* pd.DataFrame(data) for a list of row dicts (line 144)
DataFrame(data) ==
    [type |-> "DataFrame",
     columns |-> IF Len(data) = 0 THEN <<>> ELSE Columns,
     rows |-> [i \in 1..Len(data) |-> [col \in DOMAIN data[i] |-> Cell(data, i, col)]]]

\* geemap.Map(center=(35.0, 105.0), zoom=5) (line 141)
MapWidget == [type |-> "Map", center |-> <<35, 105>>, zoom |-> 5]

\* a Python tuple
Tuple(items) == [type |-> "tuple", items |-> items]

\* line 89, with "and" in place of "or"
IsEmptyBoth(size_start, size_end) == size_start = 0 /\ size_end = 0

\* line 89: either collection is empty
IsEmpty(size_start, size_end) == size_start = 0 \/ size_end = 0

\* The calculation before its first execution (reactive.event holds it back
\* while the button's value is 0).
NotRun ==
    [run |-> 0, params |-> <<>>, start_date |-> <<>>, end_date |-> <<>>,
     sizes |-> <<>>, calls |-> <<>>, features_start |-> <<>>,
     features_end |-> <<>>, data |-> <<>>, percentage_changes |-> <<>>, hex_colors |-> Raised("not called"),
     silent |-> TRUE, outcome |-> Raised("silent")]

\* lines 63-144: one execution of fetch_data, numbered run, reading the
\* inputs inp and given the remote answer ans.  calls lists the remote
\* requests and the local steps made, in order; sizes the collection sizes
\* the service reported.
fetch_data(inp, ans, run) ==
    LET start_date == DateStr(inp.start_year, inp.start_month, <<"01">>)
        end_date == DateStr(inp.end_year, inp.end_month, <<"01">>)
        sizes == IF ans.size_start = 0 THEN <<ans.size_start>>
                 ELSE <<ans.size_start, ans.size_end>>
        head == [NotRun EXCEPT !.run = run, !.silent = FALSE,
                    !.params = <<inp.start_year, inp.start_month,
                                 inp.end_year, inp.end_month>>,
                    !.start_date = start_date, !.end_date = end_date,
                    !.sizes = sizes]
        \* line 89: "or" asks the end size only when the start size is not 0
        sizeCalls == IF ans.size_start = 0 THEN <<"size_start">>
                     ELSE <<"size_start", "size_end">>
        features_start == ans.features_start
        features_end == ans.features_end
        data == LoopData(features_start, features_end)
        percentage_changes == LoopChanges(data)
        hex_colors == create_colormap(percentage_changes)
        loopCalls == sizeCalls \o <<"mosaic_start", "mosaic_end",
                        "reduceRegions_start", "reduceRegions_end",
                        "features_start", "features_end", "loop", "create_colormap">>
        body == [head EXCEPT !.features_start = features_start,
                    !.features_end = features_end, !.data = data,
                    !.percentage_changes = percentage_changes,
                    !.hex_colors = hex_colors]
    IN IF IsEmpty(ans.size_start, ans.size_end)
       THEN [head EXCEPT !.calls = sizeCalls, !.outcome = Returned(ErrorFrame)]
       ELSE IF hex_colors.raised # ""
       THEN [body EXCEPT !.calls = loopCalls, !.outcome = Raised(hex_colors.raised)]
       ELSE [body EXCEPT !.calls = loopCalls \o <<"geemap.Map">>,
                !.outcome = Returned(Tuple(<<DataFrame(data), MapWidget>>))]

\* ------------------------------------------------------------ the renderers
\* iter(v): a tuple yields its items, a DataFrame its column labels
PyIter(v) ==
    IF v.type = "tuple" THEN v.items
    ELSE [i \in 1..Len(v.columns) |-> [type |-> "str", text |-> v.columns[i]]]

\* "a, b = v": ValueError unless v yields exactly two items
Unpack2(v) ==
    IF Len(PyIter(v)) = 2 THEN Returned(PyIter(v)) ELSE Raised("ValueError")

\* What an output shows: nothing yet, a value, or an error.
Blank == [kind |-> "blank", error |-> "", from |-> 0, value |-> [type |-> "none"]]
Shown(v, run) == [kind |-> "value", error |-> "", from |-> run, value |-> v]
Failed(e, run) == [kind |-> "error", error |-> e, from |-> run, value |-> [type |-> "none"]]

\* An output that calls fetch_data() and keeps item k of its two results,
\* which must be of the type the output renders.
RenderItem(calc, k, type) ==
    IF calc.silent THEN Blank
    ELSE IF calc.outcome.raised # "" THEN Failed(calc.outcome.raised, calc.run)
    ELSE LET u == Unpack2(calc.outcome.value)
         IN IF u.raised # "" THEN Failed(u.raised, calc.run)
            ELSE IF u.value[k].type # type THEN Failed("TypeError", calc.run)
            ELSE Shown(u.value[k], calc.run)

\* lines 151-155: data, _ = fetch_data(); return data
RenderTable(calc) == RenderItem(calc, 1, "DataFrame")

\* lines 157-161: _, Map = fetch_data(); return Map
RenderMap(calc) == RenderItem(calc, 2, "Map")

\* ------------------------------------------------------------------- state
VARIABLES
    input,       \* the values of the four selectors and of the Update button
    info,        \* the text the info output shows
    fetch,       \* the reactive.Calc fetch_data: its last execution and result
    table,       \* what the table output shows
    map,         \* what the map output shows
    at_click,    \* history: the selector values at the latest Update click
    arg_changes, \* the argument of a direct call of create_colormap
    ret_colors   \* the outcome of that call

vars == <<input, info, fetch, table, map, at_click, arg_changes, ret_colors>>

\* lines 61-62, with the selectors as triggers too (no reactive.event)
EventTriggersAll == Selectors \cup {"update"}

\* lines 61-62: @reactive.event(input.update) - only the button invalidates
\* fetch_data; the selectors are read in isolation
EventTriggers == {"update"}

\* line 61: @reactive.Calc - a second caller in the same flush gets the
\* cached execution, not a new one
CalcRead(cached, again) == cached

NotCalled == Raised("not called")

Init ==
    /\ input = [start_year |-> 2024, start_month |-> 1,
                end_year |-> 2024, end_month |-> 1, update |-> 0]
    /\ info = InfoText(input)
    /\ fetch = NotRun
    /\ table = Blank
    /\ map = Blank
    /\ at_click = <<>>
    /\ arg_changes = <<>>
    /\ ret_colors = NotCalled

\* One flush after fetch_data was invalidated: table() executes it, map()
\* reads it again, both outputs are re-rendered.
Flush(inp, ans) ==
    \E first \in {fetch_data(inp, ans, fetch.run + 1)} :
        \E second \in {CalcRead(first, fetch_data(inp, ans, fetch.run + 2))} :
            /\ fetch' = second
            /\ table' = RenderTable(first)
            /\ map' = RenderMap(second)

\* A change of input name: the outputs that depend on it are re-rendered;
\* if fetch_data runs, the service gives one of the answers.
React(name, answers) ==
    /\ info' = InfoText(input')
    /\ IF name \in EventTriggers
       THEN \E ans \in answers : Flush(input', ans)
       ELSE UNCHANGED <<fetch, table, map>>

\* The user picks another value in one of the four selectors.
SelectInput ==
    \E name \in Selectors : \E v \in Choices(name) \ {input[name]} :
        /\ input' = [input EXCEPT ![name] = v]
        /\ React(name, RemoteAnswers)
        /\ UNCHANGED <<at_click, arg_changes, ret_colors>>

\* The user clicks Update.
Click(answers) ==
    /\ input.update < MaxClicks
    /\ input' = [input EXCEPT !.update = @ + 1]
    /\ at_click' = <<input.start_year, input.start_month,
                     input.end_year, input.end_month>>
    /\ React("update", answers)
    /\ UNCHANGED <<arg_changes, ret_colors>>

ClickUpdate == Click(RemoteAnswers)

Next == SelectInput \/ ClickUpdate

Spec == Init /\ [][Next]_vars

\* fetch_data alone: the first Update click, over every answer in the bounds
FirstUpdate == input.update = 0 /\ Click(AllRemoteAnswers)

FetchNext == FirstUpdate

SpecFetch == Init /\ [][FetchNext]_vars

\* create_colormap alone, over every argument list within the bounds
ChangeValues == {Num(-10), Num(0), Num(50), Rat(5, 2)}

ChangeLists == UNION { [1..n -> ChangeValues] : n \in 0..MaxValues }

ColormapInit ==
    /\ input = [start_year |-> 2024, start_month |-> 1,
                end_year |-> 2024, end_month |-> 1, update |-> 0]
    /\ info = InfoText(input)
    /\ fetch = NotRun
    /\ table = Blank
    /\ map = Blank
    /\ at_click = <<>>
    /\ arg_changes \in ChangeLists
    /\ ret_colors = NotCalled

CallCreateColormap ==
    /\ ret_colors = NotCalled
    /\ ret_colors' = create_colormap(arg_changes)
    /\ UNCHANGED <<input, info, fetch, table, map, at_click, arg_changes>>

ColormapNext == CallCreateColormap

SpecColormap == ColormapInit /\ [][ColormapNext]_vars

\* ------------------------------------------------------------------ claims
\* The mean the service gave for feature i of a list: None when the key is
\* missing or null.
MeanOf(features, i) ==
    IF "mean" \in DOMAIN features[i].properties
    THEN features[i].properties["mean"] ELSE None

Usable(v) == v.tag = "num" /\ v.num # 0

\* v = (e - s) / s * 100 as exact fractions, cross-multiplied
IsChangeOf(v, s, e) ==
    /\ v.tag = "num"
    /\ v.num * (e.den * s.num) = v.den * 100 * (e.num * s.den - s.num * e.den)

Executed == ~fetch.silent
ReturnedTuple == Executed /\ fetch.outcome.raised = "" /\ fetch.outcome.value.type = "tuple"
TableRows == fetch.outcome.value.items[1].rows

MeansAre(features, means) ==
    /\ Len(features) = Len(means)
    /\ \A i \in 1..Len(means) : MeanOf(features, i) = means[i]

Scenario ==
    /\ Executed /\ Len(fetch.sizes) = 2 /\ fetch.sizes[1] > 0 /\ fetch.sizes[2] > 0
    /\ MeansAre(fetch.features_start, <<Num(10), Num(20)>>)
    /\ MeansAre(fetch.features_end, <<Num(15), Num(18)>>)

\* C1: every row whose start mean and end mean are both present and nonzero
\* has 'Percentage Change' = (end - start) / start * 100, in the loop's data
\* and in the returned table; start means [10, 20] with end means [15, 18]
\* give exactly two rows with changes [50, -10].
C1_PercentageChange ==
    /\ \A i \in 1..Len(fetch.data) :
          LET s == MeanOf(fetch.features_start, i)
              e == MeanOf(fetch.features_end, i)
          IN (Usable(s) /\ Usable(e)) =>
                /\ IsChangeOf(fetch.data[i][ColChange], s, e)
                /\ ReturnedTuple => IsChangeOf(TableRows[i][ColChange], s, e)
    /\ Scenario =>
          /\ ReturnedTuple
          /\ Len(TableRows) = 2
          /\ TableRows[1][ColChange] = [tag |-> "num", num |-> 50, den |-> 1]
          /\ TableRows[2][ColChange] = [tag |-> "num", num |-> -10, den |-> 1]

C1_Witness ==
    /\ Scenario
    /\ ReturnedTuple
    /\ Len(fetch.data) = 2
    /\ fetch.data[1][ColChange].num = 50
    /\ fetch.data[2][ColChange].num = -10

Missing(v) == v.tag \in {"None", "NaN"}

\* C2: a row whose start mean or end mean is absent, null or zero has no
\* 'Percentage Change' (None in the loop's data, a missing value in the
\* returned table), and the other rows of the batch keep their computed
\* change.
C2_MissingMeans ==
    \A i \in 1..Len(fetch.data) :
        LET s == MeanOf(fetch.features_start, i)
            e == MeanOf(fetch.features_end, i)
        IN ~(Usable(s) /\ Usable(e)) =>
              /\ fetch.data[i][ColChange].tag = "None"
              /\ ReturnedTuple => Missing(TableRows[i][ColChange])
              /\ \A j \in 1..Len(fetch.data) :
                    LET sj == MeanOf(fetch.features_start, j)
                        ej == MeanOf(fetch.features_end, j)
                    IN (Usable(sj) /\ Usable(ej)) =>
                          /\ IsChangeOf(fetch.data[j][ColChange], sj, ej)
                          /\ ReturnedTuple => IsChangeOf(TableRows[j][ColChange], sj, ej)

C2_Witness ==
    /\ ReturnedTuple
    /\ Len(fetch.data) = 2
    /\ MeanOf(fetch.features_end, 1) = Num(0)
    /\ MeanOf(fetch.features_start, 2) = Num(20)
    /\ MeanOf(fetch.features_end, 2) = Num(18)
    /\ TableRows[1][ColChange].tag = "NaN"
    /\ TableRows[2][ColChange].num = -10

SawEmptyCollection == Executed /\ \E k \in 1..Len(fetch.sizes) : fetch.sizes[k] = 0

HeavySteps == {"mosaic_start", "mosaic_end", "reduceRegions_start", "reduceRegions_end",
               "features_start", "features_end", "loop", "create_colormap", "geemap.Map"}

\* C3: when the start or the end collection has size zero, fetch_data
\* returns the one-row table {"Error": ["No data available for the selected
\* months."]} and makes no mosaic, region reduction, loop, colormap or map
\* widget in that update.
C3_ShortCircuit ==
    SawEmptyCollection =>
        /\ fetch.outcome.raised = ""
        /\ fetch.outcome.value.type = "DataFrame"
        /\ fetch.outcome.value.columns = <<"Error">>
        /\ Len(fetch.outcome.value.rows) = 1
        /\ fetch.outcome.value.rows[1]["Error"] = "No data available for the selected months."
        /\ \A k \in 1..Len(fetch.calls) : fetch.calls[k] \notin HeavySteps
        /\ fetch.hex_colors = NotCalled
        /\ Len(fetch.data) = 0
        /\ map.kind # "value"

C3_Witness ==
    /\ Executed
    /\ fetch.sizes = <<1, 0>>
    /\ fetch.outcome.raised = ""
    /\ fetch.outcome.value.type = "DataFrame"

\* C4: after an update that found no data the table output shows the
\* one-row {Error} table, and after a successful update the four-column
\* table; neither renderer raises on either shape.
C4_RenderersHandleBothShapes ==
    (Executed /\ fetch.outcome.raised = "") =>
        /\ table.kind = "value"
        /\ table.value.type = "DataFrame"
        /\ map.kind # "error"
        /\ SawEmptyCollection =>
              table.value.columns = <<"Error">> /\ Len(table.value.rows) = 1
        /\ ~SawEmptyCollection =>
              table.value.columns = <<"State", "Start Mean Radiance",
                                      "End Mean Radiance", "Percentage Change">>

IsHexDigit(c) == c \in {"0", "1", "2", "3", "4", "5", "6", "7", "8", "9",
                        "a", "b", "c", "d", "e", "f"}

\* ^#[0-9a-f]{6}$
IsHexColor(h) == Len(h) = 7 /\ h[1] = "#" /\ \A k \in 2..7 : IsHexDigit(h[k])

Called == ret_colors # NotCalled

\* C5: for an argument of length N >= 1, create_colormap returns exactly N
\* strings, each '#' followed by exactly six lowercase hexadecimal digits.
C5_HexStrings ==
    (Called /\ Len(arg_changes) >= 1) =>
        /\ ret_colors.raised = ""
        /\ Len(ret_colors.value) = Len(arg_changes)
        /\ \A i \in 1..Len(ret_colors.value) : IsHexColor(ret_colors.value[i])

BothNonEmpty == Executed /\ Len(fetch.sizes) = 2 /\ fetch.sizes[1] > 0 /\ fetch.sizes[2] > 0

\* C6: whenever both queries report at least one image, fetch_data returns
\* without raising, with one table row per paired region, whatever means
\* are present, absent or zero.
C6_CompletesWithRowPerPair ==
    BothNonEmpty =>
        /\ fetch.outcome.raised = ""
        /\ fetch.outcome.value.type = "tuple"
        /\ Len(fetch.outcome.value.items[1].rows)
              = IF Len(fetch.features_start) < Len(fetch.features_end)
                THEN Len(fetch.features_start) ELSE Len(fetch.features_end)

HexDigitValue(c) == CHOOSE n \in 0..15 : HexDigits[n + 1] = c

\* the component written at characters k, k+1 of a well-formed colour
Component(h, k) == 16 * HexDigitValue(h[k]) + HexDigitValue(h[k + 1])

\* C8: for N >= 2 the first colour is '#0000ff', the last '#ff0000', every
\* colour has its components within 0..255, red never decreases and blue
\* never increases along the sequence.
C8_BlueToRed ==
    (Called /\ Len(arg_changes) >= 2) =>
        /\ ret_colors.raised = ""
        /\ ret_colors.value[1] = <<"#", "0", "0", "0", "0", "f", "f">>
        /\ ret_colors.value[Len(ret_colors.value)] = <<"#", "f", "f", "0", "0", "0", "0">>
        /\ \A i \in 1..Len(ret_colors.value) : IsHexColor(ret_colors.value[i])
        /\ \A i \in 1..(Len(ret_colors.value) - 1) :
              /\ Component(ret_colors.value[i], 2) <= Component(ret_colors.value[i + 1], 2)
              /\ Component(ret_colors.value[i], 6) >= Component(ret_colors.value[i + 1], 6)

\* C9: fetch_data is executed only by a step that clicks Update, never by a
\* selector change alone; after every step the table and the map come from
\* the same single execution, the latest one, and that execution read the
\* selector values as they were at the latest Update click.
C9_OnlyOnUpdate ==
    [][ /\ fetch'.run # fetch.run => input'.update = input.update + 1
        /\ input'.update = input.update => fetch' = fetch /\ table' = table /\ map' = map
        /\ table'.from = fetch'.run
        /\ map'.from = fetch'.run
        /\ fetch'.run = input'.update
        /\ fetch'.run > 0 => fetch'.params = at_click' ]_vars

C9_Witness ==
    /\ input.update = 2
    /\ fetch.run = 2
    /\ table.kind = "value" /\ map.kind = "value"
    /\ table.from = 2 /\ map.from = 2
    /\ fetch.params = at_click
    /\ at_click # <<input.start_year, input.start_month, input.end_year, input.end_month>>

\* C10: rows pair the features by position.  There are as many rows as the
\* shorter list has features; row i has the name and start mean of start
\* feature i and the end mean of end feature i, whether or not the two
\* features name the same region.
C10_PairedByIndex ==
    Executed /\ ~SawEmptyCollection =>
        /\ Len(fetch.data) = IF Len(fetch.features_start) < Len(fetch.features_end)
                             THEN Len(fetch.features_start) ELSE Len(fetch.features_end)
        /\ \A i \in 1..Len(fetch.data) :
              /\ fetch.data[i][ColState] = fetch.features_start[i].properties["ADM1_NAME"]
              /\ fetch.data[i][ColStart] = MeanOf(fetch.features_start, i)
              /\ fetch.data[i][ColEnd] = MeanOf(fetch.features_end, i)
        /\ ReturnedTuple =>
              /\ Len(TableRows) = Len(fetch.data)
              /\ \A i \in 1..Len(TableRows) :
                    /\ TableRows[i][ColState] = fetch.features_start[i].properties["ADM1_NAME"]
                    /\ Usable(MeanOf(fetch.features_end, i)) =>
                          TableRows[i][ColEnd] = MeanOf(fetch.features_end, i)

C10_Witness ==
    /\ ReturnedTuple
    /\ Len(fetch.features_start) = 2
    /\ Len(fetch.features_end) = 1
    /\ Len(TableRows) = 1
    /\ fetch.features_end[1].properties["ADM1_NAME"] # TableRows[1][ColState]
    /\ TableRows[1][ColEnd] = MeanOf(fetch.features_end, 1)

====
